---- MODULE Spec2Model ----
(***************************************************************************)
(* A model of one Run of trade_tcl (src/pybybit.py): the placement         *)
(* threads, the polling worker (Fill Detector), the TP/SL worker, the      *)
(* position monitors, the input listener and the controller loop, against  *)
(* a venue whose orders fill, whose position opens and closes and whose    *)
(* calls return, are rejected or raise.  Specification Spec is the Run;    *)
(* SpecRate is rate_limited_request with its callers on a half-second      *)
(* clock.                                                                  *)
(*                                                                         *)
(* A worker loop guarded by "while not stop_event.is_set()" has no exit    *)
(* step of its own: a worker standing at the head of its loop while        *)
(* stop_event is set has nothing left to do and counts as ended            *)
(* (PollEnded, TpslEnded, MonStopped).                                     *)
(***************************************************************************)
EXTENDS Integers, Sequences, FiniteSets, TLC

\* ------------------------------------------------------------------ bounds
\* keys_dict: how many accounts the Run is called with.
NumAccounts == 1
\* How many of an account's three placements the venue accepts at most.
MaxPlaced == 2
\* max_wait_seconds of the Run.
MaxWait == 3
\* SpecRate: caller threads of rate_limited_request and the last clock tick.
NumCallers == 2
MaxRateClock == 4
\* SpecRate: how many Runs follow each other in the process.
MaxRuns == 2

\* --------------------------------------------------------------- constants
\* for i in range(1, 4)
NumTiers == 3
\* 1 second on the clock of SpecRate, which counts half seconds.
OneSecond == 2

Accounts == 1..NumAccounts
Tiers == 1..NumTiers

\* order_link_id = f"{account_name}_limit{i}_{uuid...}": unique per account and tier.
OrderLinkId(a, i) == <<a, i>>
AllLinks == {OrderLinkId(a, i) : a \in Accounts, i \in Tiers}
LinksOf(a) == {OrderLinkId(a, i) : i \in Tiers}

\* f"Limit{limit_num}"
Label(limit_num) == <<"Limit", limit_num>>

\* retCode values: success, "not modified", and one standing for any other code.
RetCodes == {0, 34040, 10001}
\* The outcome of a venue call that raises instead of returning a response.
Raised == 0 - 1

VARIABLES
  \* time: seconds in Spec, half seconds in SpecRate
  clock, max_wait_seconds,
  \* placement threads
  placePc, placeWake,
  \* per-run state of trade_tcl
  results, orderlinkid_to_limit, pending_orderlinks, processed_fills,
  final_summary, active_position_flag, order_timestamps,
  cancel_requested, stop_event, fill_events,
  \* the venue
  orderStatus, posSize,
  \* polling_worker
  pollPc, pollAcc, processed, missing,
  \* tpsl_worker
  tpslPc, tpslEvt,
  \* position_monitor threads, one per successful TP/SL application
  mon,
  \* controller loop
  ctrlPc, ctrlAcc, all_done, now, to_cancel, pos_info,
  \* listen_for_cancel
  listenPc,
  \* observers: set-trading-stop calls per id, the controller's cancel calls issued
  \* and returned, the close orders sent
  stopCalls, ctrlCancels, ctrlReturned, closeOrders,
  \* rate_limited_request (SpecRate)
  last_request_time, rlPc, rlAcc, rlWake, lastSend, sendGap,
  \* SpecRate: the Run in progress, the Run each caller thread belongs to, and the
  \* Run of the thread that wrote each entry of last_request_time
  run, rlRun, stampRun

runVars == <<max_wait_seconds, placePc, placeWake,
             results, orderlinkid_to_limit, pending_orderlinks, processed_fills,
             final_summary, active_position_flag, order_timestamps,
             cancel_requested, stop_event, fill_events, orderStatus, posSize,
             pollPc, pollAcc, processed, missing, tpslPc, tpslEvt, mon,
             ctrlPc, ctrlAcc, all_done, now, to_cancel, pos_info, listenPc,
             stopCalls, ctrlCancels, ctrlReturned, closeOrders>>
rateVars == <<last_request_time, rlPc, rlAcc, rlWake, lastSend, sendGap,
              run, rlRun, stampRun>>
vars == <<clock, runVars, rateVars>>

\* ----------------------------------------------------------------- helpers
Range(s) == {s[k] : k \in DOMAIN s}

\* Every enumeration of the finite set S as a list (list(a_set) has no fixed order).
Perms(S) == {s \in [1..Cardinality(S) -> S] : \A i, j \in DOMAIN s : i # j => s[i] # s[j]}

\* How often x occurs in the list s.
Count(s, x) == Cardinality({k \in DOMAIN s : s[k] = x})

\* str(status).lower()
Lower(status) ==
  CASE status = "Filled" -> "filled"
    [] status = "New" -> "new"
    [] status = "Cancelled" -> "cancelled"
    [] OTHER -> status

\* str(status).lower() in ("filled", "complete", "closed")
IsTerminalFill(status) == Lower(status) \in {"filled", "complete", "closed"}

\* -------------------------------------------------------------------- Init
MonIdle == [pc |-> "idle", waited_for_position |-> FALSE, to_cancel |-> <<>>]

\* rate_limited_request is not modelled in the Run specification.
RateIdle ==
  /\ last_request_time = [a \in Accounts |-> -1]
  /\ rlPc = [t \in 1..NumCallers |-> "idle"]
  /\ rlAcc = [t \in 1..NumCallers |-> 1]
  /\ rlWake = [t \in 1..NumCallers |-> 0]
  /\ lastSend = [a \in Accounts |-> -1]
  /\ sendGap = [a \in Accounts |-> OneSecond]
  /\ run = 1
  /\ rlRun = [t \in 1..NumCallers |-> 1]
  /\ stampRun = [a \in Accounts |-> 0]

\* The per-run local state of trade_tcl as it is built before placement starts.
RunLocals ==
  /\ placePc = [a \in Accounts |-> 0]
  /\ placeWake = [a \in Accounts |-> 0]
  /\ results = [a \in Accounts |-> <<>>]
  /\ orderlinkid_to_limit = [a \in Accounts |-> [l \in {} |-> 0]]
  /\ pending_orderlinks = [a \in Accounts |-> {}]
  /\ processed_fills = [a \in Accounts |-> {}]
  /\ final_summary = [a \in Accounts |->
        [filled |-> <<>>, canceled |-> <<>>, timeout |-> FALSE,
         done |-> FALSE, user_cancel |-> FALSE]]
  /\ active_position_flag = [a \in Accounts |-> FALSE]
  /\ order_timestamps = [a \in Accounts |-> 0]
  /\ cancel_requested = FALSE
  /\ stop_event = FALSE
  /\ fill_events = <<>>
  /\ orderStatus = [l \in AllLinks |-> "None"]
  /\ posSize = [a \in Accounts |-> 0]
  /\ pollPc = "init"
  /\ pollAcc = 1
  /\ processed = [a \in Accounts |-> {}]
  /\ missing = {}
  /\ tpslPc = "init"
  /\ tpslEvt = <<>>
  /\ mon = [a \in Accounts |-> [i \in Tiers |-> MonIdle]]
  /\ ctrlPc = "init"
  /\ ctrlAcc = 1
  /\ all_done = TRUE
  /\ now = 0
  /\ to_cancel = <<>>
  /\ pos_info = <<>>
  /\ listenPc = "init"
  /\ stopCalls = [l \in AllLinks |-> 0]
  /\ ctrlCancels = [a \in Accounts |-> {}]
  /\ ctrlReturned = [a \in Accounts |-> {}]
  /\ closeOrders = [a \in Accounts |-> <<>>]

\* trade_tcl(order_dict, keys_dict, ..., max_wait_seconds)
RunInit == max_wait_seconds = MaxWait /\ RunLocals

Init == clock = 1 /\ RunInit /\ RateIdle

\* main.py: max_wait = int(), that is 0, handed to trade_tcl.
ZeroWaitInit == clock = 1 /\ max_wait_seconds = 0 /\ RunLocals /\ RateIdle

\* --------------------------------------------------------------- the venue
\* The venue is looked at from the start of the workers to the return of the Run:
\* a fill during placement is seen no earlier than one right after it.
VenueWatched == ctrlPc \notin {"init", "returned"}

\* A resting limit order fills: the position grows by the tier's quantity.
VenueFill(l) ==
  /\ VenueWatched
  /\ orderStatus[l] = "New"
  /\ orderStatus' = [orderStatus EXCEPT ![l] = "Filled"]
  /\ posSize' = [posSize EXCEPT ![l[1]] = @ + 1]
  /\ UNCHANGED <<max_wait_seconds, placePc, placeWake, results, orderlinkid_to_limit,
                 pending_orderlinks, processed_fills, final_summary, active_position_flag,
                 order_timestamps, cancel_requested, stop_event, fill_events, pollPc,
                 pollAcc, processed, missing, tpslPc, tpslEvt, mon, ctrlPc, ctrlAcc,
                 all_done, now, to_cancel, pos_info, listenPc, stopCalls, ctrlCancels,
                 ctrlReturned, closeOrders>>
  /\ UNCHANGED <<clock, rateVars>>

\* The position closes (TP or SL hit, or closed by hand).
VenueClose(a) ==
  /\ VenueWatched
  /\ posSize[a] > 0
  /\ posSize' = [posSize EXCEPT ![a] = 0]
  /\ UNCHANGED <<max_wait_seconds, placePc, placeWake, results, orderlinkid_to_limit,
                 pending_orderlinks, processed_fills, final_summary, active_position_flag,
                 order_timestamps, cancel_requested, stop_event, fill_events, orderStatus,
                 pollPc, pollAcc, processed, missing, tpslPc, tpslEvt, mon, ctrlPc,
                 ctrlAcc, all_done, now, to_cancel, pos_info, listenPc, stopCalls,
                 ctrlCancels, ctrlReturned, closeOrders>>
  /\ UNCHANGED <<clock, rateVars>>

\* What a cancel request that reaches the venue does to the order.
VenueCancelled(status, l) ==
  [status EXCEPT ![l] = IF @ = "New" THEN "Cancelled" ELSE @]

\* ------------------------------------------------------------------- time
\* Time is read by the placement sleeps and by the controller's deadline test only;
\* the clock advances while one of them still waits for it.
PlacementSleeps(a) == placePc[a] >= 2 /\ ctrlPc = "init" /\ clock < placeWake[a]
DeadlineAhead(a) ==
  /\ ctrlPc \notin {"init", "teardown", "returned"}
  /\ ~final_summary[a].done
  /\ clock - order_timestamps[a] <= max_wait_seconds

Tick ==
  /\ \E a \in Accounts : PlacementSleeps(a) \/ DeadlineAhead(a)
  /\ clock' = clock + 1
  /\ UNCHANGED <<max_wait_seconds, placePc, placeWake, results, orderlinkid_to_limit,
                 pending_orderlinks, processed_fills, final_summary, active_position_flag,
                 order_timestamps, cancel_requested, stop_event, fill_events, orderStatus,
                 posSize, pollPc, pollAcc, processed, missing, tpslPc, tpslEvt, mon,
                 ctrlPc, ctrlAcc, all_done, now, to_cancel, pos_info, listenPc, stopCalls,
                 ctrlCancels, ctrlReturned, closeOrders>>
  /\ UNCHANGED rateVars

\* -------------------------------------------------------------- placement
\* place_orders up to the loop: session and actions, set-leverage (its failure is
\* only logged), results[account_name] = [], order_timestamps[account_name] = time.time().
PlaceStart(a) ==
  /\ placePc[a] = 0
  /\ placePc' = [placePc EXCEPT ![a] = 1]
  /\ results' = [results EXCEPT ![a] = <<>>]
  /\ order_timestamps' = [order_timestamps EXCEPT ![a] = clock]
  /\ UNCHANGED <<max_wait_seconds, placeWake, orderlinkid_to_limit, pending_orderlinks,
                 processed_fills, final_summary, active_position_flag, cancel_requested,
                 stop_event, fill_events, orderStatus, posSize, pollPc, pollAcc, processed,
                 missing, tpslPc, tpslEvt, mon, ctrlPc, ctrlAcc, all_done, now, to_cancel,
                 pos_info, listenPc, stopCalls, ctrlCancels, ctrlReturned, closeOrders>>
  /\ UNCHANGED <<clock, rateVars>>

\* The success test of a placement response: isinstance(resp, dict) and retCode == 0.
PlaceSucceeded(resp) == resp = 0

\* What place_order may answer for the next tier of account a: a retCode, or Raised.
\* The venue accepts at most MaxPlaced orders of an account.
PlaceResponses(a) ==
  {10001, Raised} \cup (IF Len(results[a]) < MaxPlaced THEN {0} ELSE {})

\* A placement loop that is left at the first tier whose placement fails.
PlaceOrderStopsOnFailure(a, resp) ==
  /\ placePc[a] \in Tiers
  /\ clock >= placeWake[a]
  /\ LET i == placePc[a]
         order_link_id == OrderLinkId(a, i)
     IN /\ IF PlaceSucceeded(resp)
           THEN /\ results' = [results EXCEPT ![a] =
                                 Append(@, [orderLinkId |-> order_link_id])]
                /\ orderlinkid_to_limit' =
                     [orderlinkid_to_limit EXCEPT ![a] =
                        [k \in DOMAIN @ \cup {order_link_id} |->
                           IF k = order_link_id THEN i ELSE @[k]]]
                /\ pending_orderlinks' =
                     [pending_orderlinks EXCEPT ![a] = @ \cup {order_link_id}]
                /\ orderStatus' = [orderStatus EXCEPT ![order_link_id] = "New"]
                /\ placePc' = [placePc EXCEPT ![a] = i + 1]
           ELSE /\ UNCHANGED <<results, orderlinkid_to_limit, pending_orderlinks, orderStatus>>
                /\ placePc' = [placePc EXCEPT ![a] = NumTiers + 1]
        /\ placeWake' = [placeWake EXCEPT ![a] = clock + 1]
  /\ UNCHANGED <<max_wait_seconds, processed_fills, final_summary, active_position_flag,
                 order_timestamps, cancel_requested, stop_event, fill_events, posSize,
                 pollPc, pollAcc, processed, missing, tpslPc, tpslEvt, mon, ctrlPc,
                 ctrlAcc, all_done, now, to_cancel, pos_info, listenPc, stopCalls,
                 ctrlCancels, ctrlReturned, closeOrders>>
  /\ UNCHANGED <<clock, rateVars>>

\* A placement loop that records a placed id without its orderlinkid_to_limit entry.
PlaceOrderUnmapped(a, resp) ==
  /\ placePc[a] \in Tiers
  /\ clock >= placeWake[a]
  /\ LET i == placePc[a]
         order_link_id == OrderLinkId(a, i)
     IN /\ IF PlaceSucceeded(resp)
           THEN /\ results' = [results EXCEPT ![a] =
                                 Append(@, [orderLinkId |-> order_link_id])]
                /\ pending_orderlinks' =
                     [pending_orderlinks EXCEPT ![a] = @ \cup {order_link_id}]
                /\ orderStatus' = [orderStatus EXCEPT ![order_link_id] = "New"]
           ELSE UNCHANGED <<results, pending_orderlinks, orderStatus>>
        /\ placePc' = [placePc EXCEPT ![a] = i + 1]
        /\ placeWake' = [placeWake EXCEPT ![a] = clock + 1]
  /\ UNCHANGED <<max_wait_seconds, orderlinkid_to_limit, processed_fills, final_summary,
                 active_position_flag, order_timestamps, cancel_requested, stop_event,
                 fill_events, posSize, pollPc, pollAcc, processed, missing, tpslPc,
                 tpslEvt, mon, ctrlPc, ctrlAcc, all_done, now, to_cancel, pos_info,
                 listenPc, stopCalls, ctrlCancels, ctrlReturned, closeOrders>>
  /\ UNCHANGED <<clock, rateVars>>

\* A placement loop without its time.sleep(1).
PlaceOrderNoSleep(a, resp) ==
  /\ placePc[a] \in Tiers
  /\ LET i == placePc[a]
         order_link_id == OrderLinkId(a, i)
     IN /\ IF PlaceSucceeded(resp)
           THEN /\ results' = [results EXCEPT ![a] =
                                 Append(@, [orderLinkId |-> order_link_id])]
                /\ orderlinkid_to_limit' =
                     [orderlinkid_to_limit EXCEPT ![a] =
                        [k \in DOMAIN @ \cup {order_link_id} |->
                           IF k = order_link_id THEN i ELSE @[k]]]
                /\ pending_orderlinks' =
                     [pending_orderlinks EXCEPT ![a] = @ \cup {order_link_id}]
                /\ orderStatus' = [orderStatus EXCEPT ![order_link_id] = "New"]
           ELSE UNCHANGED <<results, orderlinkid_to_limit, pending_orderlinks, orderStatus>>
        /\ placePc' = [placePc EXCEPT ![a] = i + 1]
        /\ UNCHANGED placeWake
  /\ UNCHANGED <<max_wait_seconds, processed_fills, final_summary, active_position_flag,
                 order_timestamps, cancel_requested, stop_event, fill_events, posSize,
                 pollPc, pollAcc, processed, missing, tpslPc, tpslEvt, mon, ctrlPc,
                 ctrlAcc, all_done, now, to_cancel, pos_info, listenPc, stopCalls,
                 ctrlCancels, ctrlReturned, closeOrders>>
  /\ UNCHANGED <<clock, rateVars>>

\* One iteration of "for i in range(1, 4)" with the answer resp of place_order:
\* place tier i, record it on success, then time.sleep(1).
PlaceOrderWith(a, resp) ==
  /\ placePc[a] \in Tiers
  /\ clock >= placeWake[a]
  /\ LET i == placePc[a]
         order_link_id == OrderLinkId(a, i)
     IN /\ IF PlaceSucceeded(resp)
           THEN /\ results' = [results EXCEPT ![a] =
                                 Append(@, [orderLinkId |-> order_link_id])]
                /\ orderlinkid_to_limit' =
                     [orderlinkid_to_limit EXCEPT ![a] =
                        [k \in DOMAIN @ \cup {order_link_id} |->
                           IF k = order_link_id THEN i ELSE @[k]]]
                /\ pending_orderlinks' =
                     [pending_orderlinks EXCEPT ![a] = @ \cup {order_link_id}]
                /\ orderStatus' = [orderStatus EXCEPT ![order_link_id] = "New"]
           ELSE UNCHANGED <<results, orderlinkid_to_limit, pending_orderlinks, orderStatus>>
        /\ placePc' = [placePc EXCEPT ![a] = i + 1]
        /\ placeWake' = [placeWake EXCEPT ![a] = clock + 1]
  /\ UNCHANGED <<max_wait_seconds, processed_fills, final_summary, active_position_flag,
                 order_timestamps, cancel_requested, stop_event, fill_events, posSize,
                 pollPc, pollAcc, processed, missing, tpslPc, tpslEvt, mon, ctrlPc,
                 ctrlAcc, all_done, now, to_cancel, pos_info, listenPc, stopCalls,
                 ctrlCancels, ctrlReturned, closeOrders>>
  /\ UNCHANGED <<clock, rateVars>>

PlaceOrder(a) == \E resp \in PlaceResponses(a) : PlaceOrderWith(a, resp)

\* Every placement thread is joined; polling_worker, tpsl_worker and
\* listen_for_cancel are started and the controller loop is entered.
StartWorkers ==
  /\ ctrlPc = "init"
  /\ \A a \in Accounts : placePc[a] = NumTiers + 1 /\ clock >= placeWake[a]
  /\ pollPc' = "scan"
  /\ tpslPc' = "loop"
  /\ listenPc' = "listening"
  /\ ctrlPc' = "pass"
  /\ UNCHANGED <<max_wait_seconds, placePc, placeWake, results, orderlinkid_to_limit,
                 pending_orderlinks, processed_fills, final_summary, active_position_flag,
                 order_timestamps, cancel_requested, stop_event, fill_events, orderStatus,
                 posSize, pollAcc, processed, missing, tpslEvt, mon, ctrlAcc, all_done,
                 now, to_cancel, pos_info, stopCalls, ctrlCancels, ctrlReturned,
                 closeOrders>>
  /\ UNCHANGED <<clock, rateVars>>


\* ---------------------------------------------------------- polling_worker
\* A list of order records for the ids in links, all with the one status.
OrdersOf(links, status) ==
  LET s == CHOOSE q \in Perms(links) : TRUE
  IN [k \in DOMAIN s |-> [orderLinkId |-> s[k], orderStatus |-> status]]

\* What fetch_open_orders_safe may hand back for account a: every resting order with
\* status New, each filled order either listed with status Filled or already dropped
\* from the view, in any order; or the empty list, which also stands for a fetch
\* that raised ("except Exception: orders = []").
OpenOrdersResponses(a) ==
  LET resting == {l \in LinksOf(a) : orderStatus[l] = "New"}
      filled == {l \in LinksOf(a) : orderStatus[l] = "Filled"}
  IN {<<>>} \cup
     {OrdersOf(resting, "New") \o
        [k \in DOMAIN q |-> [orderLinkId |-> q[k], orderStatus |-> "Filled"]] :
          q \in UNION {Perms(vis) : vis \in SUBSET filled}}

\* What the order-history call may hand back for one id: the order's record, or
\* nothing (history not yet propagated; a call that raised is only logged).
HistoryResponses(l) ==
  {<<>>} \cup (IF orderStatus[l] = "None" THEN {} ELSE {<<[orderStatus |-> orderStatus[l]]>>})

\* The "for order in orders" loop: found_links, and for a tracked order reported
\* filled and not yet in the local processed set: mark, discard from pending, enqueue.
RECURSIVE ScanOrders(_, _, _)
ScanOrders(orders, a, st) ==
  IF orders = <<>> THEN st
  ELSE LET order_link == Head(orders).orderLinkId
           status == Head(orders).orderStatus
           seen == [st EXCEPT !.found_links = @ \cup {order_link}]
           hit == /\ order_link \in DOMAIN orderlinkid_to_limit[a]
                  /\ IsTerminalFill(status)
                  /\ order_link \notin st.processed
       IN ScanOrders(Tail(orders), a,
            IF hit
            THEN [seen EXCEPT !.processed = @ \cup {order_link},
                              !.pending = @ \ {order_link},
                              !.queue = Append(@, <<a, order_link>>)]
            ELSE seen)

\* The account the "for acc in keys_dict.keys()" loop takes after a (the sleep
\* between two rounds is not timed).
NextPollAcc(a) == IF a < NumAccounts THEN a + 1 ELSE 1

\* One iteration of the for loop up to the history fallback.
PollScan ==
  /\ pollPc = "scan"
  /\ ~stop_event
  /\ LET a == pollAcc
     IN IF pending_orderlinks[a] = {}
        THEN /\ pollAcc' = NextPollAcc(a)
             /\ UNCHANGED <<pending_orderlinks, processed, fill_events, missing, pollPc>>
        ELSE \E orders \in OpenOrdersResponses(a) :
               LET st == ScanOrders(orders, a,
                           [processed |-> processed[a], pending |-> pending_orderlinks[a],
                            queue |-> fill_events, found_links |-> {}])
                   miss == st.pending \ st.found_links
               IN /\ processed' = [processed EXCEPT ![a] = st.processed]
                  /\ pending_orderlinks' = [pending_orderlinks EXCEPT ![a] = st.pending]
                  /\ fill_events' = st.queue
                  /\ missing' = miss
                  /\ IF miss = {}
                     THEN pollAcc' = NextPollAcc(a) /\ pollPc' = "scan"
                     ELSE pollAcc' = a /\ pollPc' = "history"
  /\ UNCHANGED <<max_wait_seconds, placePc, placeWake, results, orderlinkid_to_limit,
                 processed_fills, final_summary, active_position_flag, order_timestamps,
                 cancel_requested, stop_event, orderStatus, posSize, tpslPc, tpslEvt, mon,
                 ctrlPc, ctrlAcc, all_done, now, to_cancel, pos_info, listenPc, stopCalls,
                 ctrlCancels, ctrlReturned, closeOrders>>
  /\ UNCHANGED <<clock, rateVars>>

\* A history record with a terminal-fill status.
HistoryShowsFill(hist) == \E k \in DOMAIN hist : IsTerminalFill(hist[k].orderStatus)

\* The history fallback without pending_orderlinks[acc].discard(missing_link).
PollHistoryKeepsPending ==
  /\ pollPc = "history"
  /\ IF stop_event
     THEN /\ pollPc' = "scan"
          /\ missing' = {}
          /\ UNCHANGED <<fill_events, pollAcc>>
     ELSE \E missing_link \in missing : \E hist \in HistoryResponses(missing_link) :
            /\ IF HistoryShowsFill(hist)
               THEN fill_events' = Append(fill_events, <<pollAcc, missing_link>>)
               ELSE UNCHANGED fill_events
            /\ missing' = missing \ {missing_link}
            /\ IF missing' = {}
               THEN pollAcc' = NextPollAcc(pollAcc) /\ pollPc' = "scan"
               ELSE UNCHANGED <<pollAcc, pollPc>>
  /\ UNCHANGED <<max_wait_seconds, placePc, placeWake, results, orderlinkid_to_limit,
                 pending_orderlinks, processed_fills, final_summary, active_position_flag,
                 order_timestamps, cancel_requested, stop_event, orderStatus, posSize,
                 processed, tpslPc, tpslEvt, mon, ctrlPc, ctrlAcc, all_done, now,
                 to_cancel, pos_info, listenPc, stopCalls, ctrlCancels, ctrlReturned,
                 closeOrders>>
  /\ UNCHANGED <<clock, rateVars>>

\* One iteration of "for missing_link in list(missing)"; with stop_event set the
\* loop is left and the worker is back at the head of its while loop.
PollHistory ==
  /\ pollPc = "history"
  /\ IF stop_event
     THEN /\ pollPc' = "scan"
          /\ missing' = {}
          /\ UNCHANGED <<pending_orderlinks, fill_events, pollAcc>>
     ELSE \E missing_link \in missing : \E hist \in HistoryResponses(missing_link) :
            /\ IF HistoryShowsFill(hist)
               THEN /\ pending_orderlinks' =
                         [pending_orderlinks EXCEPT ![pollAcc] = @ \ {missing_link}]
                    /\ fill_events' = Append(fill_events, <<pollAcc, missing_link>>)
               ELSE UNCHANGED <<pending_orderlinks, fill_events>>
            /\ missing' = missing \ {missing_link}
            /\ IF missing' = {}
               THEN pollAcc' = NextPollAcc(pollAcc) /\ pollPc' = "scan"
               ELSE UNCHANGED <<pollAcc, pollPc>>
  /\ UNCHANGED <<max_wait_seconds, placePc, placeWake, results, orderlinkid_to_limit,
                 processed_fills, final_summary, active_position_flag, order_timestamps,
                 cancel_requested, stop_event, orderStatus, posSize, processed, tpslPc,
                 tpslEvt, mon, ctrlPc, ctrlAcc, all_done, now, to_cancel, pos_info,
                 listenPc, stopCalls, ctrlCancels, ctrlReturned, closeOrders>>
  /\ UNCHANGED <<clock, rateVars>>

\* "while not stop_event.is_set()" is false at the head of the loop.
PollEnded == pollPc = "scan" /\ stop_event

\* ------------------------------------------------------------- tpsl_worker
\* A worker without the duplicate test: every FillEvent is processed.
NeverProcessed(a, l) == FALSE

\* "if order_link_id in processed_fills[account_name]: continue"
AlreadyProcessed(a, l) == l \in processed_fills[a]

\* The worker's loop without its two stop_event tests.
TpslGetUnchecked ==
  /\ tpslPc = "loop"
  /\ fill_events # <<>>
  /\ LET a == Head(fill_events)[1]
         l == Head(fill_events)[2]
     IN /\ fill_events' = Tail(fill_events)
        /\ IF l \in processed_fills[a]
           THEN UNCHANGED <<processed_fills, tpslPc, tpslEvt>>
           ELSE /\ processed_fills' = [processed_fills EXCEPT ![a] = @ \cup {l}]
                /\ IF l \in DOMAIN orderlinkid_to_limit[a]
                   THEN tpslPc' = "call" /\ tpslEvt' = <<a, l>>
                   ELSE UNCHANGED <<tpslPc, tpslEvt>>
  /\ UNCHANGED <<max_wait_seconds, placePc, placeWake, results, orderlinkid_to_limit,
                 pending_orderlinks, final_summary, active_position_flag, order_timestamps,
                 cancel_requested, stop_event, orderStatus, posSize, pollPc, pollAcc,
                 processed, missing, mon, ctrlPc, ctrlAcc, all_done, now, to_cancel,
                 pos_info, listenPc, stopCalls, ctrlCancels, ctrlReturned, closeOrders>>
  /\ UNCHANGED <<clock, rateVars>>

\* fill_events.get, the duplicate test under the lock and the tier lookup.
TpslGet ==
  /\ tpslPc = "loop"
  /\ ~stop_event
  /\ fill_events # <<>>
  /\ LET a == Head(fill_events)[1]
         l == Head(fill_events)[2]
     IN /\ fill_events' = Tail(fill_events)
        /\ IF AlreadyProcessed(a, l)
           THEN UNCHANGED <<processed_fills, tpslPc, tpslEvt>>
           ELSE /\ processed_fills' = [processed_fills EXCEPT ![a] = @ \cup {l}]
                /\ IF l \in DOMAIN orderlinkid_to_limit[a]
                   THEN tpslPc' = "call" /\ tpslEvt' = <<a, l>>
                   ELSE UNCHANGED <<tpslPc, tpslEvt>>
  /\ UNCHANGED <<max_wait_seconds, placePc, placeWake, results, orderlinkid_to_limit,
                 pending_orderlinks, final_summary, active_position_flag, order_timestamps,
                 cancel_requested, stop_event, orderStatus, posSize, pollPc, pollAcc,
                 processed, missing, mon, ctrlPc, ctrlAcc, all_done, now, to_cancel,
                 pos_info, listenPc, stopCalls, ctrlCancels, ctrlReturned, closeOrders>>
  /\ UNCHANGED <<clock, rateVars>>

\* A worker that takes only code 0 for a success.
SucceededOnZero(code) == code = 0

\* A worker that takes every response that came back for a success.
SucceededOnResponse(code) == code # Raised

\* "if code in (0, 34040)"
TpslSucceeded(code) == code \in {0, 34040}

\* threading.Thread(target=position_monitor, ...).start() after a successful
\* set-trading-stop: the thread started for tier i of account a.
StartMonitor(m, a, i) ==
  [m EXCEPT ![a][i] = [pc |-> "poll", waited_for_position |-> FALSE, to_cancel |-> <<>>]]

\* The set_trading_stop call answered with retCode code (Raised: the call raised),
\* and what follows.
TpslCallWith(code) ==
  /\ tpslPc = "call"
  /\ LET a == tpslEvt[1]
         l == tpslEvt[2]
         limit_num == orderlinkid_to_limit[a][l]
     IN /\ stopCalls' = [stopCalls EXCEPT ![l] = @ + 1]
        /\ IF TpslSucceeded(code)
           THEN /\ final_summary' =
                     [final_summary EXCEPT ![a].filled = Append(@, Label(limit_num))]
                /\ active_position_flag' = [active_position_flag EXCEPT ![a] = TRUE]
                /\ mon' = StartMonitor(mon, a, limit_num)
           ELSE UNCHANGED <<final_summary, active_position_flag, mon>>
  /\ tpslPc' = "loop"
  /\ tpslEvt' = <<>>
  /\ UNCHANGED <<max_wait_seconds, placePc, placeWake, results, orderlinkid_to_limit,
                 pending_orderlinks, processed_fills, order_timestamps, cancel_requested,
                 stop_event, fill_events, orderStatus, posSize, pollPc, pollAcc, processed,
                 missing, ctrlPc, ctrlAcc, all_done, now, to_cancel, pos_info, listenPc,
                 ctrlCancels, ctrlReturned, closeOrders>>
  /\ UNCHANGED <<clock, rateVars>>

TpslCall == \E code \in RetCodes \cup {Raised} : TpslCallWith(code)

\* "while not stop_event.is_set()" is false at the head of the loop.
TpslEnded == tpslPc = "loop" /\ stop_event

\* -------------------------------------------------------- position_monitor
\* What get_positions may hand back: it raises, or it returns a list that is empty
\* or holds the symbol's position.
PositionResponses(a) ==
  {[raised |-> TRUE, list |-> <<>>], [raised |-> FALSE, list |-> <<>>]} \cup
  {[raised |-> FALSE, list |-> <<[size |-> posSize[a], side |-> side]>>] :
     side \in IF posSize[a] > 0 THEN {"Buy", "Sell"} ELSE {"None"}}

\* size = float(positions[0].get("size", 0)), 0.0 for an empty list.
ReportedSize(resp) == IF resp.list # <<>> THEN resp.list[1].size ELSE 0

\* The monitor's thread is running: started and neither returned nor stopped.
MonStopped(a, i) == mon[a][i].pc = "poll" /\ stop_event
MonRunning(a, i) == mon[a][i].pc \in {"poll", "closing"} /\ ~MonStopped(a, i)

\* A monitor that takes a get_positions call that raised for a read of size 0.
MonPollRaiseAsZero(a, i, resp) ==
  /\ mon[a][i].pc = "poll"
  /\ ~stop_event
  /\ active_position_flag[a]
  /\ LET size == ReportedSize(resp)
     IN IF ~mon[a][i].waited_for_position
        THEN /\ mon' = [mon EXCEPT ![a][i].waited_for_position = (size > 0)]
             /\ UNCHANGED active_position_flag
        ELSE IF size = 0
             THEN \E snapshot \in Perms(pending_orderlinks[a]) :
                    IF snapshot = <<>>
                    THEN /\ mon' = [mon EXCEPT ![a][i].pc = "returned"]
                         /\ active_position_flag' =
                              [active_position_flag EXCEPT ![a] = FALSE]
                    ELSE /\ mon' = [mon EXCEPT ![a][i].pc = "closing",
                                               ![a][i].to_cancel = snapshot]
                         /\ UNCHANGED active_position_flag
             ELSE UNCHANGED <<mon, active_position_flag>>
  /\ UNCHANGED <<max_wait_seconds, placePc, placeWake, results, orderlinkid_to_limit,
                 pending_orderlinks, processed_fills, final_summary, order_timestamps,
                 cancel_requested, stop_event, fill_events, orderStatus, posSize, pollPc,
                 pollAcc, processed, missing, tpslPc, tpslEvt, ctrlPc, ctrlAcc, all_done,
                 now, to_cancel, pos_info, listenPc, stopCalls, ctrlCancels, ctrlReturned,
                 closeOrders>>
  /\ UNCHANGED <<clock, rateVars>>

\* One round of the while loop with the flag set, get_positions answering resp:
\* a raise is logged and the round ends; else the appearance of the position is
\* noted, and on size == 0 after that the pending ids are snapshot; with nothing
\* to cancel the flag is cleared and the monitor returns.
MonPollWith(a, i, resp) ==
  /\ mon[a][i].pc = "poll"
  /\ ~stop_event
  /\ active_position_flag[a]
  /\ LET size == ReportedSize(resp)
     IN IF resp.raised
        THEN UNCHANGED <<mon, active_position_flag>>
        ELSE IF ~mon[a][i].waited_for_position
        THEN /\ mon' = [mon EXCEPT ![a][i].waited_for_position = (size > 0)]
             /\ UNCHANGED active_position_flag
        ELSE IF size = 0
             THEN \E snapshot \in Perms(pending_orderlinks[a]) :
                    IF snapshot = <<>>
                    THEN /\ mon' = [mon EXCEPT ![a][i].pc = "returned"]
                         /\ active_position_flag' =
                              [active_position_flag EXCEPT ![a] = FALSE]
                    ELSE /\ mon' = [mon EXCEPT ![a][i].pc = "closing",
                                               ![a][i].to_cancel = snapshot]
                         /\ UNCHANGED active_position_flag
             ELSE UNCHANGED <<mon, active_position_flag>>
  /\ UNCHANGED <<max_wait_seconds, placePc, placeWake, results, orderlinkid_to_limit,
                 pending_orderlinks, processed_fills, final_summary, order_timestamps,
                 cancel_requested, stop_event, fill_events, orderStatus, posSize, pollPc,
                 pollAcc, processed, missing, tpslPc, tpslEvt, ctrlPc, ctrlAcc, all_done,
                 now, to_cancel, pos_info, listenPc, stopCalls, ctrlCancels, ctrlReturned,
                 closeOrders>>
  /\ UNCHANGED <<clock, rateVars>>

MonPoll(a, i) == \E resp \in PositionResponses(a) : MonPollWith(a, i, resp)

\* The cancel loop without pending_orderlinks[account_name].discard(link).
MonCancelKeepsPending(a, i) ==
  /\ mon[a][i].pc = "closing"
  /\ LET link == Head(mon[a][i].to_cancel)
         rest == Tail(mon[a][i].to_cancel)
     IN /\ \E returned \in BOOLEAN :
             IF returned
             THEN /\ final_summary' = [final_summary EXCEPT ![a].canceled = Append(@, link)]
                  /\ orderStatus' = VenueCancelled(orderStatus, link)
             ELSE UNCHANGED <<final_summary, orderStatus>>
        /\ IF rest = <<>>
           THEN /\ mon' = [mon EXCEPT ![a][i].to_cancel = <<>>, ![a][i].pc = "returned"]
                /\ active_position_flag' = [active_position_flag EXCEPT ![a] = FALSE]
           ELSE /\ mon' = [mon EXCEPT ![a][i].to_cancel = rest]
                /\ UNCHANGED active_position_flag
  /\ UNCHANGED <<max_wait_seconds, placePc, placeWake, results, orderlinkid_to_limit,
                 pending_orderlinks, processed_fills, order_timestamps, cancel_requested,
                 stop_event, fill_events, posSize, pollPc, pollAcc, processed, missing,
                 tpslPc, tpslEvt, ctrlPc, ctrlAcc, all_done, now, to_cancel, pos_info,
                 listenPc, stopCalls, ctrlCancels, ctrlReturned, closeOrders>>
  /\ UNCHANGED <<clock, rateVars>>

\* One iteration of "for link in to_cancel": the cancel call; when it returns the
\* id is recorded in canceled and discarded from pending, when it raises it is not.
\* After the last one: active_position_flag[account_name] = False; return.
MonCancel(a, i) ==
  /\ mon[a][i].pc = "closing"
  /\ LET link == Head(mon[a][i].to_cancel)
         rest == Tail(mon[a][i].to_cancel)
     IN /\ \E returned \in BOOLEAN :
             IF returned
             THEN /\ final_summary' = [final_summary EXCEPT ![a].canceled = Append(@, link)]
                  /\ pending_orderlinks' = [pending_orderlinks EXCEPT ![a] = @ \ {link}]
                  /\ orderStatus' = VenueCancelled(orderStatus, link)
             ELSE UNCHANGED <<final_summary, pending_orderlinks, orderStatus>>
        /\ IF rest = <<>>
           THEN /\ mon' = [mon EXCEPT ![a][i].to_cancel = <<>>, ![a][i].pc = "returned"]
                /\ active_position_flag' = [active_position_flag EXCEPT ![a] = FALSE]
           ELSE /\ mon' = [mon EXCEPT ![a][i].to_cancel = rest]
                /\ UNCHANGED active_position_flag
  /\ UNCHANGED <<max_wait_seconds, placePc, placeWake, results, orderlinkid_to_limit,
                 processed_fills, order_timestamps, cancel_requested, stop_event,
                 fill_events, posSize, pollPc, pollAcc, processed, missing, tpslPc,
                 tpslEvt, ctrlPc, ctrlAcc, all_done, now, to_cancel, pos_info, listenPc,
                 stopCalls, ctrlCancels, ctrlReturned, closeOrders>>
  /\ UNCHANGED <<clock, rateVars>>

\* ------------------------------------------------------- listen_for_cancel
\* The line "cancel" is read: the flag is set and the listener ends.
ListenCancel ==
  /\ listenPc = "listening"
  /\ cancel_requested' = TRUE
  /\ listenPc' = "exited"
  /\ UNCHANGED <<max_wait_seconds, placePc, placeWake, results, orderlinkid_to_limit,
                 pending_orderlinks, processed_fills, final_summary, active_position_flag,
                 order_timestamps, stop_event, fill_events, orderStatus, posSize, pollPc,
                 pollAcc, processed, missing, tpslPc, tpslEvt, mon, ctrlPc, ctrlAcc,
                 all_done, now, to_cancel, pos_info, stopCalls, ctrlCancels, ctrlReturned,
                 closeOrders>>
  /\ UNCHANGED <<clock, rateVars>>

\* ------------------------------------------------------- controller loop
\* to_cancel built from the ids still pending instead of every id placed.
PendingIds(a) == CHOOSE s \in Perms(pending_orderlinks[a]) : TRUE

\* [o.get("orderLinkId") for o in results.get(acc, []) if o.get("orderLinkId")]
PlacedIds(a) == [k \in DOMAIN results[a] |-> results[a][k].orderLinkId]

\* The deadline test with >= in place of >.
DeadlineReached(a) ==
  order_timestamps[a] # 0 /\ now - order_timestamps[a] >= max_wait_seconds

\* A controller whose timeout branch is never taken.
NoDeadline(a) == FALSE

\* "order_timestamps.get(acc) and now - order_timestamps[acc] > max_wait_seconds"
DeadlinePassed(a) ==
  order_timestamps[a] # 0 /\ now - order_timestamps[a] > max_wait_seconds

\* The completion rule without the active_position_flag test.
StillPending(a) == pending_orderlinks[a] # {}

\* "if pending_orderlinks[acc] or active_position_flag[acc]: all_done = False"
StillActive(a) == pending_orderlinks[a] # {} \/ active_position_flag[a]

\* close_side = "Sell" if side == "Buy" else "Buy"
CloseSide(side) == IF side = "Buy" THEN "Sell" ELSE "Buy"

\* The for loop goes on after account a with all_done = alldone; stop says whether
\* the branch just left set stop_event.  After the last account: "if all_done:
\* stop_event.set(); break", else the loop sleeps and starts its next pass.
CtrlAdvance(a, alldone, stop) ==
  IF a < NumAccounts
  THEN /\ ctrlAcc' = a + 1
       /\ ctrlPc' = "acc"
       /\ all_done' = alldone
       /\ stop_event' = (stop_event \/ stop)
       /\ UNCHANGED now
  ELSE /\ ctrlAcc' = 1
       /\ ctrlPc' = IF alldone THEN "teardown" ELSE "pass"
       /\ all_done' = alldone
       /\ stop_event' = (stop_event \/ stop \/ alldone)
       /\ now' = 0

\* Top of "while True": all_done = True; now = time.time().
CtrlStartPass ==
  /\ ctrlPc = "pass"
  /\ all_done' = TRUE
  /\ now' = clock
  /\ ctrlAcc' = 1
  /\ ctrlPc' = "acc"
  /\ UNCHANGED <<max_wait_seconds, placePc, placeWake, results, orderlinkid_to_limit,
                 pending_orderlinks, processed_fills, final_summary, active_position_flag,
                 order_timestamps, cancel_requested, stop_event, fill_events, orderStatus,
                 posSize, pollPc, pollAcc, processed, missing, tpslPc, tpslEvt, mon,
                 to_cancel, pos_info, listenPc, stopCalls, ctrlCancels, ctrlReturned,
                 closeOrders>>
  /\ UNCHANGED <<clock, rateVars>>

\* End of the timeout branch: timeout = True, done = True; continue.
TimeoutFinish(a, summary) ==
  /\ final_summary' = [summary EXCEPT ![a].timeout = TRUE, ![a].done = TRUE]
  /\ CtrlAdvance(a, all_done, FALSE)

\* End of the user-cancel branch: user_cancel = True, done = True,
\* stop_event.set(); continue.
UserCancelFinish(a) ==
  /\ final_summary' = [final_summary EXCEPT ![a].user_cancel = TRUE, ![a].done = TRUE]
  /\ CtrlAdvance(a, all_done, TRUE)

\* A controller that tests the deadline before cancel_requested.
CtrlAccDeadlineFirst ==
  /\ ctrlPc = "acc"
  /\ LET a == ctrlAcc
     IN IF final_summary[a].done
        THEN /\ CtrlAdvance(a, all_done, FALSE)
             /\ UNCHANGED <<to_cancel, final_summary>>
        ELSE IF DeadlinePassed(a)
        THEN IF PlacedIds(a) = <<>>
             THEN /\ TimeoutFinish(a, final_summary)
                  /\ UNCHANGED to_cancel
             ELSE /\ to_cancel' = PlacedIds(a)
                  /\ ctrlPc' = "to_cancel"
                  /\ UNCHANGED <<ctrlAcc, all_done, final_summary, stop_event, now>>
        ELSE IF cancel_requested
        THEN /\ to_cancel' = PlacedIds(a)
             /\ ctrlPc' = IF PlacedIds(a) = <<>> THEN "uc_pos" ELSE "uc_cancel"
             /\ UNCHANGED <<ctrlAcc, all_done, final_summary, stop_event, now>>
        ELSE IF StillActive(a)
        THEN /\ CtrlAdvance(a, FALSE, FALSE)
             /\ UNCHANGED <<to_cancel, final_summary>>
        ELSE /\ final_summary' = [final_summary EXCEPT ![a].done = TRUE]
             /\ CtrlAdvance(a, all_done, FALSE)
             /\ UNCHANGED to_cancel
  /\ UNCHANGED <<max_wait_seconds, placePc, placeWake, results, orderlinkid_to_limit,
                 pending_orderlinks, processed_fills, active_position_flag,
                 order_timestamps, cancel_requested, fill_events, orderStatus, posSize,
                 pollPc, pollAcc, processed, missing, tpslPc, tpslEvt, mon, pos_info,
                 listenPc, stopCalls, ctrlCancels, ctrlReturned, closeOrders>>
  /\ UNCHANGED <<clock, rateVars>>

\* The branch taken for one account: skip when done, user-cancel, timeout, or the
\* completion rule.
CtrlAcc ==
  /\ ctrlPc = "acc"
  /\ LET a == ctrlAcc
     IN IF final_summary[a].done
        THEN /\ CtrlAdvance(a, all_done, FALSE)
             /\ UNCHANGED <<to_cancel, final_summary>>
        ELSE IF cancel_requested
        THEN /\ to_cancel' = PlacedIds(a)
             /\ ctrlPc' = IF PlacedIds(a) = <<>> THEN "uc_pos" ELSE "uc_cancel"
             /\ UNCHANGED <<ctrlAcc, all_done, final_summary, stop_event, now>>
        ELSE IF DeadlinePassed(a)
        THEN IF PlacedIds(a) = <<>>
             THEN /\ TimeoutFinish(a, final_summary)
                  /\ UNCHANGED to_cancel
             ELSE /\ to_cancel' = PlacedIds(a)
                  /\ ctrlPc' = "to_cancel"
                  /\ UNCHANGED <<ctrlAcc, all_done, final_summary, stop_event, now>>
        ELSE IF StillActive(a)
        THEN /\ CtrlAdvance(a, FALSE, FALSE)
             /\ UNCHANGED <<to_cancel, final_summary>>
        ELSE /\ final_summary' = [final_summary EXCEPT ![a].done = TRUE]
             /\ CtrlAdvance(a, all_done, FALSE)
             /\ UNCHANGED to_cancel
  /\ UNCHANGED <<max_wait_seconds, placePc, placeWake, results, orderlinkid_to_limit,
                 pending_orderlinks, processed_fills, active_position_flag,
                 order_timestamps, cancel_requested, fill_events, orderStatus, posSize,
                 pollPc, pollAcc, processed, missing, tpslPc, tpslEvt, mon, pos_info,
                 listenPc, stopCalls, ctrlCancels, ctrlReturned, closeOrders>>
  /\ UNCHANGED <<clock, rateVars>>

\* User-cancel branch, one iteration of "for olnk in to_cancel": the cancel call;
\* the id is recorded in canceled when the call returns, not when it raises.
CtrlUserCancelOrder ==
  /\ ctrlPc = "uc_cancel"
  /\ LET a == ctrlAcc
         olnk == Head(to_cancel)
     IN /\ ctrlCancels' = [ctrlCancels EXCEPT ![a] = @ \cup {olnk}]
        /\ \E returned \in BOOLEAN :
             IF returned
             THEN /\ final_summary' = [final_summary EXCEPT ![a].canceled = Append(@, olnk)]
                  /\ orderStatus' = VenueCancelled(orderStatus, olnk)
                  /\ ctrlReturned' = [ctrlReturned EXCEPT ![a] = @ \cup {olnk}]
             ELSE UNCHANGED <<final_summary, orderStatus, ctrlReturned>>
  /\ to_cancel' = Tail(to_cancel)
  /\ ctrlPc' = IF Tail(to_cancel) = <<>> THEN "uc_pos" ELSE "uc_cancel"
  /\ UNCHANGED <<max_wait_seconds, placePc, placeWake, results, orderlinkid_to_limit,
                 pending_orderlinks, processed_fills, active_position_flag,
                 order_timestamps, cancel_requested, stop_event, fill_events, posSize,
                 pollPc, pollAcc, processed, missing, tpslPc, tpslEvt, mon, ctrlAcc,
                 all_done, now, pos_info, listenPc, stopCalls, closeOrders>>
  /\ UNCHANGED <<clock, rateVars>>

\* User-cancel branch: pos_info = get_positions(...).  A raise ends the try block,
\* an empty list the for loop, and the branch finishes.
CtrlReadPositions ==
  /\ ctrlPc = "uc_pos"
  /\ \E resp \in PositionResponses(ctrlAcc) :
       IF resp.raised \/ resp.list = <<>>
       THEN /\ UserCancelFinish(ctrlAcc)
            /\ UNCHANGED pos_info
       ELSE /\ pos_info' = resp.list
            /\ ctrlPc' = "uc_close"
            /\ UNCHANGED <<final_summary, ctrlAcc, all_done, stop_event, now>>
  /\ UNCHANGED <<max_wait_seconds, placePc, placeWake, results, orderlinkid_to_limit,
                 pending_orderlinks, processed_fills, active_position_flag,
                 order_timestamps, cancel_requested, fill_events, orderStatus, posSize,
                 pollPc, pollAcc, processed, missing, tpslPc, tpslEvt, mon, to_cancel,
                 listenPc, stopCalls, ctrlCancels, ctrlReturned, closeOrders>>
  /\ UNCHANGED <<clock, rateVars>>

\* The reduce-only Market order that closes position p.
CloseOrder(p) ==
  [side |-> CloseSide(p.side), orderType |-> "Market", qty |-> p.size, reduceOnly |-> TRUE]

\* User-cancel branch, one iteration of "for p in pos_info...": for size > 0 the
\* close order is sent; code is the venue's answer, Raised ends the try block.
\* After the last position the branch finishes.
CtrlClosePosition ==
  /\ ctrlPc = "uc_close"
  /\ LET a == ctrlAcc
         p == Head(pos_info)
     IN \E code \in {0, 10001, Raised} :
          /\ IF p.size > 0
             THEN /\ closeOrders' = [closeOrders EXCEPT ![a] = Append(@, CloseOrder(p))]
                  /\ posSize' = IF code = 0
                                THEN [posSize EXCEPT ![a] = IF @ > p.size THEN @ - p.size ELSE 0]
                                ELSE posSize
             ELSE UNCHANGED <<closeOrders, posSize>>
          /\ IF (p.size > 0 /\ code = Raised) \/ Tail(pos_info) = <<>>
             THEN /\ pos_info' = <<>>
                  /\ UserCancelFinish(a)
             ELSE /\ pos_info' = Tail(pos_info)
                  /\ UNCHANGED <<ctrlPc, final_summary, ctrlAcc, all_done, stop_event, now>>
  /\ UNCHANGED <<max_wait_seconds, placePc, placeWake, results, orderlinkid_to_limit,
                 pending_orderlinks, processed_fills, active_position_flag,
                 order_timestamps, cancel_requested, fill_events, orderStatus, pollPc,
                 pollAcc, processed, missing, tpslPc, tpslEvt, mon, to_cancel, listenPc,
                 stopCalls, ctrlCancels, ctrlReturned>>
  /\ UNCHANGED <<clock, rateVars>>

\* Timeout branch, one iteration of "for olnk in to_cancel"; after the last one the
\* branch finishes.
CtrlTimeoutCancelOrder ==
  /\ ctrlPc = "to_cancel"
  /\ LET a == ctrlAcc
         olnk == Head(to_cancel)
     IN /\ ctrlCancels' = [ctrlCancels EXCEPT ![a] = @ \cup {olnk}]
        /\ \E returned \in BOOLEAN :
             LET summary == IF returned
                            THEN [final_summary EXCEPT ![a].canceled = Append(@, olnk)]
                            ELSE final_summary
             IN /\ orderStatus' = IF returned THEN VenueCancelled(orderStatus, olnk)
                                  ELSE orderStatus
                /\ ctrlReturned' = IF returned
                                   THEN [ctrlReturned EXCEPT ![a] = @ \cup {olnk}]
                                   ELSE ctrlReturned
                /\ IF Tail(to_cancel) = <<>>
                   THEN TimeoutFinish(a, summary)
                   ELSE /\ final_summary' = summary
                        /\ UNCHANGED <<ctrlPc, ctrlAcc, all_done, stop_event, now>>
  /\ to_cancel' = Tail(to_cancel)
  /\ UNCHANGED <<max_wait_seconds, placePc, placeWake, results, orderlinkid_to_limit,
                 pending_orderlinks, processed_fills, active_position_flag,
                 order_timestamps, cancel_requested, fill_events, posSize, pollPc, pollAcc,
                 processed, missing, tpslPc, tpslEvt, mon, pos_info, listenPc, stopCalls,
                 closeOrders>>
  /\ UNCHANGED <<clock, rateVars>>

\* Teardown (joins with timeouts, sessions closed) and "return final_summary".
CtrlReturn ==
  /\ ctrlPc = "teardown"
  /\ ctrlPc' = "returned"
  /\ UNCHANGED <<max_wait_seconds, placePc, placeWake, results, orderlinkid_to_limit,
                 pending_orderlinks, processed_fills, final_summary, active_position_flag,
                 order_timestamps, cancel_requested, stop_event, fill_events, orderStatus,
                 posSize, pollPc, pollAcc, processed, missing, tpslPc, tpslEvt, mon,
                 ctrlAcc, all_done, now, to_cancel, pos_info, listenPc, stopCalls,
                 ctrlCancels, ctrlReturned, closeOrders>>
  /\ UNCHANGED <<clock, rateVars>>

\* ------------------------------------------------------------ specification
Next ==
  \/ Tick
  \/ \E l \in AllLinks : VenueFill(l)
  \/ \E a \in Accounts : VenueClose(a)
  \/ \E a \in Accounts : PlaceStart(a)
  \/ \E a \in Accounts : PlaceOrder(a)
  \/ StartWorkers
  \/ PollScan
  \/ PollHistory
  \/ TpslGet
  \/ TpslCall
  \/ \E a \in Accounts, i \in Tiers : MonPoll(a, i)
  \/ \E a \in Accounts, i \in Tiers : MonCancel(a, i)
  \/ ListenCancel
  \/ CtrlStartPass
  \/ CtrlAcc
  \/ CtrlUserCancelOrder
  \/ CtrlReadPositions
  \/ CtrlClosePosition
  \/ CtrlTimeoutCancelOrder
  \/ CtrlReturn

Spec == Init /\ [][Next]_vars

\* The Run as main.py starts it: max_wait_seconds = 0.
SpecZeroWait == ZeroWaitInit /\ [][Next]_vars

\* The steps of the thread that runs trade_tcl: the join of the placement threads
\* and the start of the workers, the controller loop, the teardown and the return.
Controller ==
  \/ StartWorkers
  \/ CtrlStartPass
  \/ CtrlAcc
  \/ CtrlUserCancelOrder
  \/ CtrlReadPositions
  \/ CtrlClosePosition
  \/ CtrlTimeoutCancelOrder
  \/ CtrlReturn

\* The Run under a fair scheduler and a clock that advances: the placement
\* threads and the thread of trade_tcl keep taking their steps (every venue call
\* of theirs comes back, with a response or a raise), and time.time() moves on.
FairSpec ==
  /\ Init
  /\ [][Next]_vars
  /\ WF_vars(Tick)
  /\ \A a \in Accounts : WF_vars(PlaceStart(a) \/ PlaceOrder(a))
  /\ WF_vars(Controller)

\* The Run with every thread of the program scheduled fairly: placement threads,
\* polling_worker, tpsl_worker, each position_monitor and the thread of trade_tcl.
\* The clock, the venue and the user are not forced to move, so a Run may go on
\* with its deadline still ahead and no cancel typed.
FairThreadsSpec ==
  /\ Init
  /\ [][Next]_vars
  /\ \A a \in Accounts : WF_vars(PlaceStart(a) \/ PlaceOrder(a))
  /\ WF_vars(PollScan \/ PollHistory)
  /\ WF_vars(TpslGet \/ TpslCall)
  /\ \A a \in Accounts : \A i \in Tiers : WF_vars(MonPoll(a, i) \/ MonCancel(a, i))
  /\ WF_vars(Controller)


\* ---------------------------------------------------- rate_limited_request
\* SpecRate: NumCallers threads (placement, workers, monitors, controller) call
\* rate_limited_request for an account, and polling_worker calls
\* fetch_open_orders_safe directly.  clock counts half seconds.

\* A request leaves for the venue on behalf of account a: the gap to the previous
\* one is noted (OneSecond stands for "at least a second, or no previous request").
Sent(a) ==
  /\ sendGap' = [sendGap EXCEPT ![a] =
        IF lastSend[a] = -1 \/ clock - lastSend[a] >= OneSecond
        THEN OneSecond ELSE clock - lastSend[a]]
  /\ lastSend' = [lastSend EXCEPT ![a] = clock]

\* "with _state_lock: now = time.time(); last = last_request_time.get(account_name)":
\* with a last request less than a second ago the lock is released and the caller
\* sleeps for the rest of the second, otherwise the map is stamped at once.
RlEnter(t, a) ==
  /\ rlPc[t] = "idle"
  /\ rlAcc' = [rlAcc EXCEPT ![t] = a]
  /\ rlRun' = [rlRun EXCEPT ![t] = run]
  /\ LET last == last_request_time[a]
         elapsed == clock - last
     IN IF last # -1 /\ elapsed < OneSecond
        THEN /\ rlWake' = [rlWake EXCEPT ![t] = clock + (OneSecond - elapsed)]
             /\ rlPc' = [rlPc EXCEPT ![t] = "sleeping"]
             /\ UNCHANGED <<last_request_time, stampRun>>
        ELSE /\ last_request_time' = [last_request_time EXCEPT ![a] = clock]
             /\ stampRun' = [stampRun EXCEPT ![a] = run]
             /\ rlPc' = [rlPc EXCEPT ![t] = "stamped"]
             /\ UNCHANGED rlWake
  /\ UNCHANGED <<lastSend, sendGap, run>>
  /\ UNCHANGED <<clock, runVars>>

\* The sleep is over, the lock is taken again:
\* last_request_time[account_name] = time.time().
RlWakeUp(t) ==
  /\ rlPc[t] = "sleeping"
  /\ clock >= rlWake[t]
  /\ last_request_time' = [last_request_time EXCEPT ![rlAcc[t]] = clock]
  /\ stampRun' = [stampRun EXCEPT ![rlAcc[t]] = rlRun[t]]
  /\ rlPc' = [rlPc EXCEPT ![t] = "stamped"]
  /\ UNCHANGED <<rlAcc, rlWake, lastSend, sendGap, run, rlRun>>
  /\ UNCHANGED <<clock, runVars>>

\* "return func(*args, **kwargs)", outside the lock.
RlSend(t) ==
  /\ rlPc[t] = "stamped"
  /\ Sent(rlAcc[t])
  /\ rlPc' = [rlPc EXCEPT ![t] = "idle"]
  /\ UNCHANGED <<last_request_time, rlAcc, rlWake, run, rlRun, stampRun>>
  /\ UNCHANGED <<clock, runVars>>

\* polling_worker: orders = fetch_open_orders_safe(session, symbol), a venue request
\* that does not go through rate_limited_request.
FetchOpenOrders(a) ==
  /\ Sent(a)
  /\ lastSend[a] # clock
  /\ UNCHANGED <<last_request_time, rlPc, rlAcc, rlWake, run, rlRun, stampRun>>
  /\ UNCHANGED <<clock, runVars>>

RateTick ==
  /\ clock < MaxRateClock
  /\ clock' = clock + 1
  /\ UNCHANGED <<last_request_time, rlPc, rlAcc, rlWake, lastSend, sendGap, run, rlRun,
                 stampRun>>
  /\ UNCHANGED runVars

\* The next Run begins: trade_tcl calls reset_runtime_state(), which clears
\* last_request_time.  The previous Run returned after joins with timeouts
\* (t.join(timeout=2), t.join(timeout=1)), so a thread of it that is inside
\* rate_limited_request goes on where it is.
RunStart ==
  /\ run < MaxRuns
  /\ run' = run + 1
  /\ last_request_time' = [a \in Accounts |-> -1]
  /\ stampRun' = [a \in Accounts |-> 0]
  /\ UNCHANGED <<rlPc, rlAcc, rlWake, lastSend, sendGap, rlRun>>
  /\ UNCHANGED <<clock, runVars>>

RateInit == clock = 0 /\ RunInit /\ RateIdle

RateNext ==
  \/ RateTick
  \/ RunStart
  \/ \E t \in 1..NumCallers, a \in Accounts : RlEnter(t, a)
  \/ \E t \in 1..NumCallers : RlWakeUp(t)
  \/ \E t \in 1..NumCallers : RlSend(t)
  \/ \E a \in Accounts : FetchOpenOrders(a)

SpecRate == RateInit /\ [][RateNext]_vars


\* ------------------------------------------------------------------ claims
\* C1: for every account and every order id, the TP/SL worker issues at most one
\* set-trading-stop call during a Run, however many FillEvents for that id are
\* delivered.
C1_AtMostOneTradingStop == \A l \in AllLinks : stopCalls[l] <= 1

\* An id whose set-trading-stop call has been made has a further FillEvent in the
\* queue (the history branch and the open-orders branch both reported it).
C1_Witness ==
  \E l \in AllLinks : stopCalls[l] = 1 /\ <<l[1], l>> \in Range(fill_events)

\* C2: the Controller marks an account done by the completion rule only when its
\* pending set is empty and its position flag is false; when it reaches the rule
\* with a pending id or the flag set, the account stays not done and all_done is
\* false for that pass.
C2_DoneOnlyWhenIdle ==
  [][\A a \in Accounts :
       /\ (/\ ~final_summary[a].done
           /\ final_summary'[a].done
           /\ ~final_summary'[a].timeout
           /\ ~final_summary'[a].user_cancel)
          => (pending_orderlinks[a] = {} /\ ~active_position_flag[a])
       /\ (/\ ctrlPc = "acc" /\ ctrlAcc = a
           /\ (ctrlPc' # "acc" \/ ctrlAcc' # a)
           /\ ~final_summary[a].done
           /\ ~cancel_requested
           /\ ~(order_timestamps[a] # 0 /\ now - order_timestamps[a] > max_wait_seconds)
           /\ (pending_orderlinks[a] # {} \/ active_position_flag[a]))
          => (~all_done' /\ ~final_summary'[a].done)]_vars

\* An account with a filled tier whose monitor saw the position close is done by
\* the completion rule.
C2_Witness ==
  \E a \in Accounts :
    /\ final_summary[a].done
    /\ ~final_summary[a].timeout
    /\ ~final_summary[a].user_cancel
    /\ final_summary[a].filled # <<>>
    /\ \E i \in Tiers : mon[a][i].pc = "returned"

\* C3: within one account's summary no order id appears more than once in canceled.
C3_CanceledUnique ==
  \A a \in Accounts : \A l \in LinksOf(a) : Count(final_summary[a].canceled, l) <= 1

\* C4: when the Run has returned, pending is empty for every account marked done,
\* whether by completion, timeout or user-cancel.
C4_PendingEmptyAtExit ==
  ctrlPc = "returned" =>
    \A a \in Accounts : final_summary[a].done => pending_orderlinks[a] = {}

\* C5: two consecutive venue requests made on behalf of one account, the polling
\* worker's open-orders fetch included, are at least one second apart.
C5_OneSecondApart == \A a \in Accounts : sendGap[a] >= OneSecond

\* C6: at most one position monitor runs for an account at any time.
C6_OneMonitorPerAccount ==
  \A a \in Accounts : Cardinality({i \in Tiers : MonRunning(a, i)}) <= 1

\* C7: after an account times out (and no cancel was requested) a monitor started
\* for one of its filled tiers is not ended before it has seen the position close.
C7_MonitorOutlivesTimeout ==
  \A a \in Accounts : \A i \in Tiers :
    (final_summary[a].timeout /\ ~cancel_requested) => ~MonStopped(a, i)

\* C8 as stated: an account that timed out is done, a cancel was issued for every
\* id placed, each of them is recorded in canceled, and no close order was sent.
C8_TimeoutRecordsEveryId ==
  \A a \in Accounts :
    final_summary[a].timeout =>
      /\ final_summary[a].done
      /\ \A k \in DOMAIN results[a] :
           /\ results[a][k].orderLinkId \in ctrlCancels[a]
           /\ results[a][k].orderLinkId \in Range(final_summary[a].canceled)
      /\ closeOrders[a] = <<>>

\* C8: when the Controller examines an account that is not done, with no cancel
\* requested and the time since placement above max_wait_seconds, it takes the
\* timeout branch, and only then; an account that timed out is done, a cancel was
\* issued for every id placed, every id whose cancel call returned is recorded in
\* canceled, and no close order was sent.
C8_TimeoutCancelsAll ==
  /\ [](\A a \in Accounts :
          final_summary[a].timeout =>
            /\ final_summary[a].done
            /\ ~final_summary[a].user_cancel
            /\ \A k \in DOMAIN results[a] : results[a][k].orderLinkId \in ctrlCancels[a]
            /\ \A l \in ctrlReturned[a] : l \in Range(final_summary[a].canceled)
            /\ closeOrders[a] = <<>>)
  /\ [][\A a \in Accounts :
          /\ (/\ ctrlPc = "acc" /\ ctrlAcc = a
              /\ (ctrlPc' # "acc" \/ ctrlAcc' # a)
              /\ ~final_summary[a].done
              /\ ~cancel_requested
              /\ order_timestamps[a] # 0
              /\ now - order_timestamps[a] > max_wait_seconds)
             => (ctrlPc' = "to_cancel" \/ final_summary'[a].timeout)
          /\ (~final_summary[a].timeout /\ final_summary'[a].timeout)
             => now - order_timestamps[a] > max_wait_seconds]_vars

\* A timed-out account with two orders placed, one of whose cancel calls raised:
\* the id is missing from canceled.
C8_Witness ==
  \E a \in Accounts :
    /\ final_summary[a].timeout
    /\ Len(results[a]) = MaxPlaced
    /\ \E k \in DOMAIN results[a] :
         results[a][k].orderLinkId \notin Range(final_summary[a].canceled)
    /\ ctrlReturned[a] # {}

\* C9 as stated: once cancel_requested is set every account that is not yet done
\* becomes done with user_cancel; for such an account a cancel was issued for every
\* id placed, each is recorded in canceled, and stop_event is set.
C9_CancelEndsEveryAccount ==
  /\ [](\A a \in Accounts :
          final_summary[a].user_cancel =>
            /\ final_summary[a].done
            /\ stop_event
            /\ \A k \in DOMAIN results[a] :
                 /\ results[a][k].orderLinkId \in ctrlCancels[a]
                 /\ results[a][k].orderLinkId \in Range(final_summary[a].canceled))
  /\ [][\A a \in Accounts :
          (cancel_requested /\ ~final_summary[a].done /\ final_summary'[a].done)
            => final_summary'[a].user_cancel]_vars

\* C9: an account the Controller examines while it is not done and cancel_requested
\* is set goes through the user-cancel branch and leaves it with user_cancel, done
\* and stop_event set; for an account with user_cancel a cancel was issued for every
\* id placed and every id whose cancel call returned is recorded in canceled.
C9_CancelEndsExaminedAccount ==
  /\ [](\A a \in Accounts :
          final_summary[a].user_cancel =>
            /\ final_summary[a].done
            /\ ~final_summary[a].timeout
            /\ stop_event
            /\ \A k \in DOMAIN results[a] : results[a][k].orderLinkId \in ctrlCancels[a]
            /\ \A l \in ctrlReturned[a] : l \in Range(final_summary[a].canceled))
  /\ [][\A a \in Accounts :
          /\ (/\ ctrlPc = "acc" /\ ctrlAcc = a
              /\ (ctrlPc' # "acc" \/ ctrlAcc' # a)
              /\ ~final_summary[a].done
              /\ cancel_requested)
             => (ctrlPc' \in {"uc_cancel", "uc_pos"} /\ ctrlAcc' = a)
          /\ (/\ ctrlPc \in {"uc_cancel", "uc_pos", "uc_close"} /\ ctrlAcc = a
              /\ ctrlPc' \notin {"uc_cancel", "uc_pos", "uc_close"})
             => (/\ final_summary'[a].user_cancel
                 /\ final_summary'[a].done
                 /\ stop_event')]_vars

\* An account with two orders placed, one of them filled, ended by user-cancel.
C9_Witness ==
  \E a \in Accounts :
    /\ final_summary[a].user_cancel
    /\ Len(results[a]) = MaxPlaced
    /\ final_summary[a].filled # <<>>
    /\ ctrlReturned[a] # {}

\* C10: after the user-cancel branch has finished for an account at most one close
\* order was sent, it is a reduce-only Market order on the opposite side for the
\* reported size, and no position with size > 0 is left without a close order.
C10_CancelClosesPosition ==
  \A a \in Accounts :
    final_summary[a].user_cancel =>
      /\ Len(closeOrders[a]) <= 1
      /\ \A k \in DOMAIN closeOrders[a] :
           closeOrders[a][k].reduceOnly /\ closeOrders[a][k].orderType = "Market"
      /\ posSize[a] > 0 => closeOrders[a] # <<>>

C12_AllTasksEndedAtReturn ==
  ctrlPc = "returned" =>
    /\ \A a \in Accounts : placePc[a] > NumTiers
    /\ PollEnded
    /\ TpslEnded
    /\ \A a \in Accounts : \A i \in Tiers : ~MonRunning(a, i)
    /\ listenPc = "exited"

\* C13: a Run starts with an empty rate-limit timestamp map, and every timestamp
\* the map holds during a Run was written by a thread of that Run.
C13_NoStaleTimestamp ==
  \A a \in Accounts : last_request_time[a] # -1 => stampRun[a] = run

\* C14: in the summary the Run returns for an account whose placed tiers all
\* filled, whose set-trading-stop calls were all accepted, whose position a monitor
\* saw open and then closed, with no timeout and no cancel: filled holds the label
\* of every placed tier once, canceled is empty and done is true.
C14_AllFilledSummary ==
  ctrlPc = "returned" =>
    \A a \in Accounts :
      (/\ results[a] # <<>>
       /\ \A k \in DOMAIN results[a] : orderStatus[results[a][k].orderLinkId] = "Filled"
       /\ \A i \in Tiers :
            stopCalls[OrderLinkId(a, i)] >= 1 => Label(i) \in Range(final_summary[a].filled)
       /\ \E i \in Tiers : mon[a][i].pc = "returned" /\ mon[a][i].waited_for_position
       /\ posSize[a] = 0
       /\ ~final_summary[a].timeout
       /\ ~final_summary[a].user_cancel
       /\ ~cancel_requested)
      =>
      (/\ final_summary[a].done
       /\ final_summary[a].canceled = <<>>
       /\ Len(final_summary[a].filled) = Len(results[a])
       /\ \A k \in DOMAIN results[a] :
            Count(final_summary[a].filled,
                  Label(orderlinkid_to_limit[a][results[a][k].orderLinkId])) = 1)

C16_CloseRecordsEveryId ==
  /\ [](\A a \in Accounts :
          (final_summary[a].done /\ ~final_summary[a].timeout /\ ~final_summary[a].user_cancel)
            => \A k \in DOMAIN results[a] :
                 orderStatus[results[a][k].orderLinkId] # "Filled"
                   => results[a][k].orderLinkId \in Range(final_summary[a].canceled))
  /\ [][\A a \in Accounts : \A i \in Tiers :
          /\ (mon[a][i].pc = "poll" /\ mon'[a][i].pc = "closing")
             => (/\ mon[a][i].waited_for_position
                 /\ Range(mon'[a][i].to_cancel) = pending_orderlinks[a])
          /\ (mon[a][i].pc = "closing" /\ mon'[a][i] # mon[a][i])
             => (/\ final_summary'[a].canceled =
                      Append(final_summary[a].canceled, Head(mon[a][i].to_cancel))
                 /\ pending_orderlinks'[a] =
                      pending_orderlinks[a] \ {Head(mon[a][i].to_cancel)}
                 /\ mon'[a][i].to_cancel = Tail(mon[a][i].to_cancel)
                 /\ (Tail(mon[a][i].to_cancel) = <<>>
                       => (mon'[a][i].pc = "returned" /\ ~active_position_flag'[a])))]_vars

\* C16: a monitor takes its snapshot of pending only after it has seen the position
\* open and then a size of 0; every step of its cancel loop issues the cancel for
\* the next id of the snapshot and, when the call returns, records the id in
\* canceled and removes it from pending (when it raises, neither); after the last
\* one the flag is cleared and the monitor has returned; an account done by the
\* completion rule has every placed tier that did not fill in canceled.
C16_CloseCancelsSnapshot ==
  /\ [](\A a \in Accounts :
          (final_summary[a].done /\ ~final_summary[a].timeout /\ ~final_summary[a].user_cancel)
            => \A k \in DOMAIN results[a] :
                 orderStatus[results[a][k].orderLinkId] # "Filled"
                   => results[a][k].orderLinkId \in Range(final_summary[a].canceled))
  /\ [][\A a \in Accounts : \A i \in Tiers :
          /\ (mon[a][i].pc = "poll" /\ mon'[a][i].pc = "closing")
             => (/\ mon[a][i].waited_for_position
                 /\ Range(mon'[a][i].to_cancel) = pending_orderlinks[a]
                 /\ Len(mon'[a][i].to_cancel) = Cardinality(pending_orderlinks[a]))
          /\ (mon[a][i].pc = "poll" /\ mon'[a][i].pc = "returned")
             => (/\ mon[a][i].waited_for_position
                 /\ pending_orderlinks[a] = {}
                 /\ ~active_position_flag'[a])
          /\ (mon[a][i].pc = "closing" /\ mon'[a][i] # mon[a][i])
             => LET link == Head(mon[a][i].to_cancel)
                IN /\ \/ /\ final_summary'[a].canceled = Append(final_summary[a].canceled, link)
                         /\ pending_orderlinks'[a] = pending_orderlinks[a] \ {link}
                      \/ /\ final_summary'[a].canceled = final_summary[a].canceled
                         /\ pending_orderlinks'[a] = pending_orderlinks[a]
                   /\ mon'[a][i].to_cancel = Tail(mon[a][i].to_cancel)
                   /\ IF Tail(mon[a][i].to_cancel) = <<>>
                      THEN mon'[a][i].pc = "returned" /\ ~active_position_flag'[a]
                      ELSE mon'[a][i].pc = "closing" /\ UNCHANGED active_position_flag]_vars

\* An account done by the completion rule after one tier filled and the monitor
\* cancelled the tier still resting.
C16_Witness ==
  \E a \in Accounts :
    /\ final_summary[a].done
    /\ ~final_summary[a].timeout
    /\ ~final_summary[a].user_cancel
    /\ Len(final_summary[a].filled) = 1
    /\ Len(final_summary[a].canceled) = 1
    /\ \E i \in Tiers : mon[a][i].pc = "returned" /\ mon[a][i].waited_for_position

C18_NotModifiedIsSuccess ==
  /\ [](\A a \in Accounts : \A i \in Tiers : Count(final_summary[a].filled, Label(i)) <= 1)
  /\ [][TpslCallWith(34040) =>
          /\ TpslCallWith(0)
          /\ LET a == tpslEvt[1]
                 limit_num == orderlinkid_to_limit[a][tpslEvt[2]]
             IN /\ final_summary'[a].filled =
                     Append(final_summary[a].filled, Label(limit_num))
                /\ active_position_flag'[a]]_vars

\* A tier whose set-trading-stop call succeeded: its label is in filled, the flag
\* is set and its monitor polls.
C18_Witness ==
  \E a \in Accounts : \E i \in Tiers :
    /\ stopCalls[OrderLinkId(a, i)] = 1
    /\ Count(final_summary[a].filled, Label(i)) = 1
    /\ active_position_flag[a]
    /\ mon[a][i].pc = "poll"

\* C19: a set-trading-stop call answered with a code other than 0 and 34040, or
\* one that raises, leaves filled, the flag and the monitors as they were, and the
\* worker goes back to its queue without putting the event back; an id whose call
\* failed has had one call only and no monitor was started for its tier.
C19_FailedStopDropsEvent ==
  /\ [](\A a \in Accounts : \A i \in Tiers :
          (/\ OrderLinkId(a, i) \in processed_fills[a]
           /\ tpslEvt # <<a, OrderLinkId(a, i)>>
           /\ Label(i) \notin Range(final_summary[a].filled))
          => (stopCalls[OrderLinkId(a, i)] <= 1 /\ mon[a][i].pc = "idle"))
  /\ [][\A code \in (RetCodes \cup {Raised}) \ {0, 34040} :
          TpslCallWith(code) =>
            /\ final_summary' = final_summary
            /\ active_position_flag' = active_position_flag
            /\ mon' = mon
            /\ fill_events' = fill_events
            /\ processed_fills' = processed_fills
            /\ tpslPc' = "loop"]_vars

\* A filled tier whose set-trading-stop call failed: one call, no entry in filled,
\* no monitor, the flag not set.
C19_Witness ==
  \E a \in Accounts : \E i \in Tiers :
    /\ stopCalls[OrderLinkId(a, i)] = 1
    /\ orderStatus[OrderLinkId(a, i)] = "Filled"
    /\ Label(i) \notin Range(final_summary[a].filled)
    /\ tpslPc = "loop"
    /\ mon[a][i].pc = "idle"
    /\ ~active_position_flag[a]

\* C20: each iteration of the placement loop goes on to the next tier whatever
\* place_order answered, and records the tier's id in placed, link_to_tier and
\* pending exactly when the answer was a success; placed holds ids of tiers already
\* attempted in ascending tier order, at most three, and until the workers start
\* each of them is in link_to_tier under its tier and in pending.
C20_FailedTierDoesNotAbort ==
  /\ [](\A a \in Accounts :
          /\ Len(results[a]) <= NumTiers
          /\ \A k \in DOMAIN results[a] : \E i \in Tiers :
               /\ i < placePc[a]
               /\ results[a][k].orderLinkId = OrderLinkId(a, i)
               /\ \A k2 \in DOMAIN results[a] :
                    k < k2 => \E j \in Tiers :
                                j > i /\ results[a][k2].orderLinkId = OrderLinkId(a, j)
               /\ ctrlPc = "init" =>
                    /\ OrderLinkId(a, i) \in DOMAIN orderlinkid_to_limit[a]
                    /\ orderlinkid_to_limit[a][OrderLinkId(a, i)] = i
                    /\ OrderLinkId(a, i) \in pending_orderlinks[a])
  /\ [][\A a \in Accounts : \A resp \in {0, 10001, Raised} :
          PlaceOrderWith(a, resp) =>
            /\ placePc'[a] = placePc[a] + 1
            /\ IF resp = 0
               THEN /\ results'[a] =
                         Append(results[a], [orderLinkId |-> OrderLinkId(a, placePc[a])])
                    /\ OrderLinkId(a, placePc[a]) \in pending_orderlinks'[a]
                    /\ OrderLinkId(a, placePc[a]) \in DOMAIN orderlinkid_to_limit'[a]
               ELSE /\ results'[a] = results[a]
                    /\ pending_orderlinks'[a] = pending_orderlinks[a]
                    /\ orderlinkid_to_limit'[a] = orderlinkid_to_limit[a]]_vars

\* Placement has ended with tier 2 failed and tiers 1 and 3 placed.
C20_Witness ==
  \E a \in Accounts :
    /\ ctrlPc = "init"
    /\ placePc[a] = NumTiers + 1
    /\ PlacedIds(a) = <<OrderLinkId(a, 1), OrderLinkId(a, 3)>>
    /\ pending_orderlinks[a] = {OrderLinkId(a, 1), OrderLinkId(a, 3)}

\* C21 as stated: with max_wait_seconds = 0 every account has, at the return of
\* the Run, timeout = true and every placed id in canceled.
C21_ZeroWaitTimesOutAll ==
  ctrlPc = "returned" =>
    \A a \in Accounts :
      /\ final_summary[a].timeout
      /\ Range(PlacedIds(a)) \subseteq Range(final_summary[a].canceled)

\* C21: with max_wait_seconds = 0 an account never becomes done through the
\* completion rule; an account done without user-cancel has timeout = true, a
\* cancel was issued for every id it placed, and every id whose cancel call
\* returned is in canceled.
C21_ZeroWaitTimesOut ==
  \A a \in Accounts :
    final_summary[a].done =>
      /\ final_summary[a].timeout # final_summary[a].user_cancel
      /\ ctrlCancels[a] = Range(PlacedIds(a))
      /\ ctrlReturned[a] \subseteq Range(final_summary[a].canceled)

\* A Run with max_wait_seconds = 0 returned with timeout = true and both placed
\* ids in canceled.
C21_Witness ==
  \E a \in Accounts :
    /\ max_wait_seconds = 0
    /\ ctrlPc = "returned"
    /\ final_summary[a].timeout
    /\ Len(PlacedIds(a)) = 2
    /\ Range(PlacedIds(a)) \subseteq Range(final_summary[a].canceled)

\* C22 as stated: an account with no successful placement has, at the return of
\* the Run, done = true, empty filled, empty canceled, timeout = false and
\* user_cancel = false.
C22_EmptyAccountPlainDone ==
  \A a \in Accounts :
    (ctrlPc = "returned" /\ PlacedIds(a) = <<>>) =>
      /\ final_summary[a].done
      /\ final_summary[a].filled = <<>>
      /\ final_summary[a].canceled = <<>>
      /\ ~final_summary[a].timeout
      /\ ~final_summary[a].user_cancel

\* C22: an account with no successful placement always has empty filled and
\* empty canceled and is done when the Run returns; the controller step that
\* examines it with no cancel requested marks it done without user_cancel, with
\* timeout = true exactly when max_wait_seconds has elapsed since its placement.
C22_EmptyAccountDone ==
  /\ [](\A a \in Accounts :
          (placePc[a] = NumTiers + 1 /\ PlacedIds(a) = <<>>) =>
            /\ final_summary[a].filled = <<>>
            /\ final_summary[a].canceled = <<>>
            /\ ctrlPc = "returned" => final_summary[a].done
            /\ ~(final_summary[a].timeout /\ final_summary[a].user_cancel))
  /\ [][\A a \in Accounts :
          (/\ CtrlAcc
           /\ ctrlAcc = a
           /\ PlacedIds(a) = <<>>
           /\ ~final_summary[a].done
           /\ ~cancel_requested) =>
            /\ final_summary'[a].done
            /\ ~final_summary'[a].user_cancel
            /\ final_summary'[a].timeout = (now - order_timestamps[a] > max_wait_seconds)]_vars

\* A Run returned with an account that placed nothing: done, nothing filled or
\* canceled, no timeout and no user-cancel.
C22_Witness ==
  \E a \in Accounts :
    /\ ctrlPc = "returned"
    /\ PlacedIds(a) = <<>>
    /\ final_summary[a] = [filled |-> <<>>, canceled |-> <<>>, timeout |-> FALSE,
                           done |-> TRUE, user_cancel |-> FALSE]

\* C23: in every reachable state each tier label occurs at most once in an
\* account's filled list.
C23_FilledLabelsUnique ==
  \A a \in Accounts : \A i \in Tiers : Count(final_summary[a].filled, Label(i)) <= 1

\* A second FillEvent for a tier whose label is already in filled waits in the queue.
C23_Witness ==
  \E a \in Accounts : \E i \in Tiers :
    /\ Count(final_summary[a].filled, Label(i)) = 1
    /\ <<a, OrderLinkId(a, i)>> \in Range(fill_events)

\* C24: in every reachable state every id of an account's pending set and every
\* id of its processed_fills set is a key of the account's link_to_tier map.
C24_TrackedIdsAreMapped ==
  \A a \in Accounts :
    /\ pending_orderlinks[a] \subseteq DOMAIN orderlinkid_to_limit[a]
    /\ processed_fills[a] \subseteq DOMAIN orderlinkid_to_limit[a]

\* An account with an id still pending and another already taken by the TP/SL worker.
C24_Witness ==
  \E a \in Accounts :
    /\ pending_orderlinks[a] # {}
    /\ processed_fills[a] # {}

\* C25: under a fair scheduler, with time advancing and every venue call coming
\* back, the Run eventually returns its summary, with stop_event set and
\* done = true for every account.
C25_RunEnds ==
  <>(/\ ctrlPc = "returned"
     /\ stop_event
     /\ \A a \in Accounts : final_summary[a].done)

\* A Run that returned with its account done by the completion rule alone.
C25_Witness ==
  /\ ctrlPc = "returned"
  /\ stop_event
  /\ \A a \in Accounts :
       /\ final_summary[a].done
       /\ ~final_summary[a].timeout
       /\ ~final_summary[a].user_cancel
       /\ final_summary[a].filled # <<>>

\* C26: the controller step that marks an account done through the completion
\* rule is never taken while a FillEvent of that account for an id the TP/SL worker
\* has not yet admitted waits in the queue, or while the worker holds an event of
\* that account whose set-trading-stop call is still to be made.
C26_DoneWaitsForFillEvents ==
  [][\A a \in Accounts :
       (/\ ~final_summary[a].done
        /\ final_summary'[a].done
        /\ ~final_summary'[a].timeout
        /\ ~final_summary'[a].user_cancel) =>
         /\ \A k \in DOMAIN fill_events :
              fill_events[k][1] = a => fill_events[k][2] \in processed_fills[a]
         /\ tpslEvt = <<>> \/ tpslEvt[1] # a]_vars

\* C27: a monitor that ends its cancel loop after an earlier position was closed
\* leaves position_armed true when another tier of the account has been armed
\* since and its own monitor has not yet seen the position that tier opened: the
\* flag that gates that monitor is not cleared under an open position.
C27_ClosingKeepsLaterArming ==
  [][\A a \in Accounts : \A i \in Tiers :
       (mon[a][i].pc = "closing" /\ mon'[a][i].pc = "returned") =>
         \A j \in Tiers :
           (/\ Label(j) \in Range(final_summary[a].filled)
            /\ mon[a][j].pc = "poll"
            /\ ~mon[a][j].waited_for_position
            /\ posSize[a] > 0
            /\ posSize[a] < Cardinality({l \in LinksOf(a) : orderStatus[l] = "Filled"}))
           => active_position_flag'[a]]_vars

\* C28: an id whose tier label is in an account's filled list never appears in
\* that account's canceled list.
C28_FilledNotCanceled ==
  \A a \in Accounts : \A i \in Tiers :
    Label(i) \in Range(final_summary[a].filled) =>
      OrderLinkId(a, i) \notin Range(final_summary[a].canceled)

\* C29: once an account's done flag is true, no step changes its summary entry:
\* done stays true and filled, canceled, timeout and user_cancel stay as they are.
C29_DoneSummaryFrozen ==
  [][\A a \in Accounts :
       final_summary[a].done => final_summary'[a] = final_summary[a]]_vars

\* C30: while the Run is not stopped (no timeout, no user-cancel, not complete),
\* an account does not stay armed for ever with its position at size 0: again and
\* again position_armed is false, or the position is open, or stop_event is set.
C30_ArmedClosedPositionClears ==
  \A a \in Accounts :
    []<>(~active_position_flag[a] \/ posSize[a] > 0 \/ stop_event)

\* C31: timeout and user_cancel are never both true for an account; the
\* controller step that examines an account with cancel_requested set and its
\* deadline passed enters the user-cancel branch, and the branch is left with
\* user_cancel = true, timeout = false and done = true.
C31_CancelBeforeTimeout ==
  /\ [](\A a \in Accounts :
          /\ ~(final_summary[a].timeout /\ final_summary[a].user_cancel)
          /\ (ctrlPc \in {"uc_cancel", "uc_pos", "uc_close"} /\ ctrlAcc = a) =>
               (~final_summary[a].timeout /\ ~final_summary[a].done))
  /\ [][\A a \in Accounts :
          /\ (/\ CtrlAcc
              /\ ctrlAcc = a
              /\ ~final_summary[a].done
              /\ cancel_requested
              /\ now - order_timestamps[a] > max_wait_seconds) =>
               /\ ctrlPc' \in {"uc_cancel", "uc_pos"}
               /\ ctrlAcc' = a
               /\ final_summary' = final_summary
          /\ (/\ ctrlPc \in {"uc_cancel", "uc_pos", "uc_close"}
              /\ ctrlAcc = a
              /\ ctrlPc' \notin {"uc_cancel", "uc_pos", "uc_close"}) =>
               /\ final_summary'[a].user_cancel
               /\ ~final_summary'[a].timeout
               /\ final_summary'[a].done]_vars

\* The controller is in the user-cancel branch of an account whose deadline had
\* also passed when the pass read the time.
C31_Witness ==
  \E a \in Accounts :
    /\ ctrlPc = "uc_pos"
    /\ ctrlAcc = a
    /\ cancel_requested
    /\ order_timestamps[a] # 0
    /\ now - order_timestamps[a] > max_wait_seconds
    /\ ~final_summary[a].timeout

====
